---- MODULE Spec2Model ----
(***************************************************************************)
(* SPI - Simple Pascal Interpreter (spi.py).                               *)
(*                                                                         *)
(* A text is a sequence of one-character strings.  The lexer, the          *)
(* recursive-descent parser (with an explicit call stack of expr / term /  *)
(* factor frames) and the tree-walking interpreter are modelled as one     *)
(* state machine that evaluates one input text.                            *)
(***************************************************************************)
EXTENDS Integers, Sequences, FiniteSets, TLC

VARIABLES text, pos, current_char, current_token, stack, phase, tree,
          result, error

vars == <<text, pos, current_char, current_token, stack, phase, tree,
          result, error>>

(***************************************************************************)
(* Bounds of the model.                                                    *)
(***************************************************************************)
MaxLen == 4     \* every text over Alphabet of at most this length is an input
MaxLit == 10    \* literals 0..MaxLit appear in the operator-pattern inputs
MaxOps == 2     \* parenthesised expression inputs have at most this many operators

(***************************************************************************)
(* LEXER                                                                   *)
(***************************************************************************)
INTEGER == "INTEGER"
PLUS    == "PLUS"
MINUS   == "MINUS"
MUL     == "MUL"
DIV     == "DIV"
LPAREN  == "("
RPAREN  == ")"
EOF     == "EOF"

\* Python's None, where a character or a token value is expected
None == "None"

\* Python's None, where an AST node is expected
NoneNode == [kind |-> "None"]

Token(type, value) == [type |-> type, value |-> value]

\* a local variable 'token' that has not been assigned yet
Unassigned == Token("unassigned", None)

Digits == <<"0", "1", "2", "3", "4", "5", "6", "7", "8", "9">>

isdigit(c) == \E i \in 1..10 : Digits[i] = c

isspace(c) == c \in {" ", "\t"}

\* int() of a single decimal digit
DigitValue(c) == (CHOOSE i \in 1..10 : Digits[i] = c) - 1

\* int() of a non-empty string of decimal digits
RECURSIVE int(_)
int(str) ==
    IF Len(str) = 1 THEN DigitValue(str[1])
    ELSE 10 * int(SubSeq(str, 1, Len(str) - 1)) + DigitValue(str[Len(str)])

\* Lexer.__init__ : the lexer object as a record
Lexer(t) == [text |-> t, pos |-> 0, current_char |-> t[1]]

\* Lexer.advance
advance(lx) ==
    LET p == lx.pos + 1 IN
    IF p > Len(lx.text) - 1
    THEN [lx EXCEPT !.pos = p, !.current_char = None]
    ELSE [lx EXCEPT !.pos = p, !.current_char = lx.text[p + 1]]

\* faulty variant of skip_whitespace: one advance too many after the run
RECURSIVE skip_whitespace_overrun(_)
skip_whitespace_overrun(lx) ==
    IF lx.current_char # None /\ isspace(lx.current_char)
    THEN skip_whitespace_overrun(advance(lx))
    ELSE IF lx.current_char # None THEN advance(lx) ELSE lx

\* Lexer.skip_whitespace
RECURSIVE skip_whitespace(_)
skip_whitespace(lx) ==
    IF lx.current_char # None /\ isspace(lx.current_char)
    THEN skip_whitespace(advance(lx))
    ELSE lx

\* the while loop of Lexer.integer, accumulating result
RECURSIVE integer_loop(_, _)
integer_loop(lx, res) ==
    IF lx.current_char # None /\ isdigit(lx.current_char)
    THEN integer_loop(advance(lx), Append(res, lx.current_char))
    ELSE [lexer |-> lx, value |-> int(res)]

\* Lexer.integer
integer(lx) == integer_loop(lx, <<>>)

\* the single-character tokens of Lexer.get_next_token
SingleCharType(c) ==
    CASE c = "+" -> PLUS
      [] c = "-" -> MINUS
      [] c = "*" -> MUL
      [] c = "/" -> DIV
      [] c = "(" -> LPAREN
      [] c = ")" -> RPAREN

IsSingleChar(c) == c \in {"+", "-", "*", "/", "(", ")"}

\* Lexer.get_next_token : the lexer after the call, the token returned and
\* the message of the exception raised ("" when none is raised)
RECURSIVE get_next_token(_)
get_next_token(lx) ==
    IF lx.current_char # None
    THEN IF isspace(lx.current_char)
         THEN get_next_token(skip_whitespace(lx))
         ELSE IF isdigit(lx.current_char)
         THEN LET r == integer(lx) IN
              [lexer |-> r.lexer, token |-> Token(INTEGER, r.value), error |-> ""]
         ELSE IF IsSingleChar(lx.current_char)
         THEN [lexer |-> advance(lx),
               token |-> Token(SingleCharType(lx.current_char), lx.current_char),
               error |-> ""]
         ELSE [lexer |-> lx, token |-> Unassigned, error |-> "Invalid character"]
    ELSE [lexer |-> lx, token |-> Token(EOF, None), error |-> ""]

(***************************************************************************)
(* PARSER                                                                  *)
(*                                                                         *)
(* The operators below take the whole program state as a record s (the     *)
(* fields are the variables) and return the state after the step.          *)
(***************************************************************************)
\* faulty variant of BinOp: the operands change places
BinOpSwapped(left, op, right) ==
    [kind |-> "BinOp", left |-> right, op |-> op, right |-> left]

\* class BinOp
BinOp(left, op, right) == [kind |-> "BinOp", left |-> left, op |-> op, right |-> right]

\* class Num
Num(token) == [kind |-> "Num", token |-> token, value |-> token.value]

\* the lexer object held by the parser
LexerOf(s) == [text |-> s.text, pos |-> s.pos, current_char |-> s.current_char]

WithLexer(s, lx) == [s EXCEPT !.pos = lx.pos, !.current_char = lx.current_char]

\* an exception: nothing in the program catches it, the evaluation ends
Raise(s, msg) == [s EXCEPT !.phase = "done", !.error = msg, !.stack = <<>>]

Raised(s) == s.phase = "done" /\ s.error # ""

\* Parser.__init__ : the first token is taken from the input
Parser(s) ==
    LET r == get_next_token(LexerOf(s)) IN
    IF r.error # ""
    THEN Raise(WithLexer(s, r.lexer), r.error)
    ELSE [WithLexer(s, r.lexer) EXCEPT !.current_token = r.token, !.phase = "ready"]

\* faulty variant of eat: the lexer's exception is replaced by the parser's
eat_replacing(s, token_type) ==
    IF s.current_token.type = token_type
    THEN LET r == get_next_token(LexerOf(s)) IN
         IF r.error # ""
         THEN Raise(WithLexer(s, r.lexer), "Invalid syntax")
         ELSE [WithLexer(s, r.lexer) EXCEPT !.current_token = r.token]
    ELSE Raise(s, "Invalid syntax")

\* Parser.eat
eat(s, token_type) ==
    IF s.current_token.type = token_type
    THEN LET r == get_next_token(LexerOf(s)) IN
         IF r.error # ""
         THEN Raise(WithLexer(s, r.lexer), r.error)
         ELSE [WithLexer(s, r.lexer) EXCEPT !.current_token = r.token]
    ELSE Raise(s, "Invalid syntax")

\* an activation of expr, term or factor with its locals node and token
Frame(fn) == [fn |-> fn, pc |-> "start", node |-> NoneNode, token |-> Unassigned]

Top(s) == s.stack[Len(s.stack)]

At(s, fn, pc) ==
    /\ s.phase = "parse"
    /\ Len(s.stack) > 0
    /\ Top(s).fn = fn
    /\ Top(s).pc = pc

SetTop(s, f) == [s EXCEPT !.stack[Len(s.stack)] = f]

\* the running activation calls fn and will resume at pc
Call(s, pc, fn) ==
    [s EXCEPT !.stack = Append(SubSeq(s.stack, 1, Len(s.stack) - 1),
                               [Top(s) EXCEPT !.pc = pc]) \o <<Frame(fn)>>]

\* faulty variant of parse: input left after the expression is an error
parse_to_EOF(s, node) ==
    IF s.current_token.type # EOF
    THEN Raise(s, "Invalid syntax")
    ELSE [s EXCEPT !.stack = <<>>, !.tree = node, !.phase = "parsed"]

\* Parser.parse returns node to Interpreter.interpret
parse(s, node) == [s EXCEPT !.stack = <<>>, !.tree = node, !.phase = "parsed"]

\* the running activation returns val to its caller:
\*   node = self.factor() / node = self.term()          (pc "first")
\*   node = BinOp(left=node, op=token, right=...)       (pc "right")
\*   node = self.expr() inside the parentheses          (pc "inner")
Return(s, val) ==
    LET rest == SubSeq(s.stack, 1, Len(s.stack) - 1) IN
    IF Len(rest) = 0
    THEN parse(s, val)
    ELSE LET c == rest[Len(rest)]
             d == CASE c.pc = "first" -> [c EXCEPT !.node = val, !.pc = "loop"]
                    [] c.pc = "right" ->
                         [c EXCEPT !.node = BinOp(c.node, c.token, val), !.pc = "loop"]
                    [] c.pc = "inner" -> [c EXCEPT !.node = val, !.pc = "rparen"]
         IN [s EXCEPT !.stack = [rest EXCEPT ![Len(rest)] = d]]

\* Interpreter.interpret calls Parser.parse, which calls expr
interpret_parse(s) == [s EXCEPT !.stack = <<Frame("expr")>>, !.phase = "parse"]

\* Parser.factor, token.type == INTEGER
factor_INTEGER(s) ==
    LET token == s.current_token
        s1 == eat(s, INTEGER)
    IN IF Raised(s1) THEN s1 ELSE Return(s1, Num(token))

\* Parser.factor, token.type == LPAREN, up to the call of expr
factor_LPAREN(s) ==
    LET s1 == eat(s, LPAREN)
    IN IF Raised(s1) THEN s1 ELSE Call(s1, "inner", "expr")

\* Parser.factor, after expr has returned: eat(RPAREN) and return node
factor_RPAREN(s) ==
    LET node == Top(s).node
        s1 == eat(s, RPAREN)
    IN IF Raised(s1) THEN s1 ELSE Return(s1, node)

\* Parser.factor, any other token: neither branch is taken and the
\* function ends without a return statement
factor_fallthrough(s) == Return(s, NoneNode)

\* faulty variant of TermOps: all four operators at one level
TermOpsFlat == {MUL, DIV, PLUS, MINUS}

\* the operators of the while loop of Parser.term
TermOps == {MUL, DIV}

\* the operators of the while loop of Parser.expr
ExprOps == {PLUS, MINUS}

\* Parser.term, node = self.factor()
term_factor(s) == Call(s, "first", "factor")

\* Parser.term, one iteration of the while loop up to the call of factor;
\* inside the loop token.type is MUL or DIV, so the if / elif eats token.type
term_while(s) ==
    LET token == s.current_token
        s1 == eat(s, token.type)
    IN IF Raised(s1) THEN s1
       ELSE Call(SetTop(s1, [Top(s1) EXCEPT !.token = token]), "right", "factor")

\* Parser.term, return node
term_return(s) == Return(s, Top(s).node)

\* Parser.expr, node = self.term()
expr_term(s) == Call(s, "first", "term")

\* Parser.expr, one iteration of the while loop up to the call of term;
\* inside the loop token.type is PLUS or MINUS, so the if / elif eats token.type
expr_while(s) ==
    LET token == s.current_token
        s1 == eat(s, token.type)
    IN IF Raised(s1) THEN s1
       ELSE Call(SetTop(s1, [Top(s1) EXCEPT !.token = token]), "right", "term")

\* Parser.expr, return node
expr_return(s) == Return(s, Top(s).node)

(***************************************************************************)
(* INTERPRETER                                                             *)
(***************************************************************************)
\* faulty variant of FloorDiv: rounds toward zero
TruncDiv(a, b) ==
    LET m == IF a < 0 THEN -a ELSE a
        n == IF b < 0 THEN -b ELSE b
    IN IF (a < 0) = (b < 0) THEN m \div n ELSE -(m \div n)

\* Python's // on integers
FloorDiv(a, b) == IF b > 0 THEN a \div b ELSE (-a) \div (-b)

Value(v) == [error |-> "", value |-> v]

Exception(msg) == [error |-> msg, value |-> 0]

\* faulty variant of Divide: a zero divisor yields zero
DivideUnchecked(a, b) == IF b = 0 THEN Value(0) ELSE Value(FloorDiv(a, b))

\* self.visit(node.left) // self.visit(node.right) on the visited values
Divide(a, b) ==
    IF b = 0 THEN Exception("ZeroDivisionError") ELSE Value(FloorDiv(a, b))

\* NodeVisitor.generic_visit
generic_visit(node) == Exception("No visit_NoneType method")

\* NodeVisitor.visit with Interpreter.visit_BinOp and Interpreter.visit_Num;
\* the left operand is visited before the right one
RECURSIVE visit(_)
visit(node) ==
    CASE node.kind = "Num" -> Value(node.value)
      [] node.kind = "BinOp" ->
           LET l == visit(node.left) IN
           IF l.error # "" THEN l ELSE
           LET r == visit(node.right) IN
           IF r.error # "" THEN r ELSE
           (CASE node.op.type = PLUS  -> Value(l.value + r.value)
              [] node.op.type = MINUS -> Value(l.value - r.value)
              [] node.op.type = MUL   -> Value(l.value * r.value)
              [] node.op.type = DIV   -> Divide(l.value, r.value))
      [] OTHER -> generic_visit(node)

\* Interpreter.interpret, return self.visit(tree)
interpret_visit(s) ==
    LET v == visit(s.tree) IN
    IF v.error # "" THEN Raise(s, v.error)
    ELSE [s EXCEPT !.result = v.value, !.phase = "done"]

(***************************************************************************)
(* INPUTS: the texts typed at the 'spi> ' prompt.  main() never hands an   *)
(* empty text to the lexer.                                                *)
(***************************************************************************)
Alphabet == {"0", "1", "-", "*", "/", "(", ")", " ", "@"}

\* every text of at most MaxLen characters of Alphabet
AllTexts == UNION {[1..n -> Alphabet] : n \in 1..MaxLen}

\* the decimal numeral of a natural number
RECURSIVE Decimal(_)
Decimal(n) ==
    IF n < 10 THEN <<Digits[n + 1]>>
    ELSE Decimal(n \div 10) \o <<Digits[(n % 10) + 1]>>

Lits == 0..MaxLit

\* 'a o1 b o2 c'
Pattern(a, o1, b, o2, c) ==
    Decimal(a) \o <<" ", o1, " ">> \o Decimal(b) \o <<" ", o2, " ">> \o Decimal(c)

\* '(a o1 b) o2 c'
ParenPattern(a, o1, b, o2, c) ==
    <<"(">> \o Decimal(a) \o <<" ", o1, " ">> \o Decimal(b) \o <<")", " ", o2, " ">>
            \o Decimal(c)

PatternTexts ==
    UNION {{Pattern(a, "+", b, "*", c), ParenPattern(a, "+", b, "*", c),
            Pattern(a, "-", b, "-", c), Pattern(a, "/", b, "/", c),
            ParenPattern(0, "-", a, "/", b)} : a \in Lits, b \in Lits, c \in Lits}

\* fully parenthesised expressions with n operators over the literals 0 and 1
RECURSIVE Expressions(_)
Expressions(n) ==
    IF n = 0 THEN {Decimal(l) : l \in 0..1}
    ELSE UNION {{(IF i = 0 THEN l ELSE <<"(">> \o l \o <<")">>) \o <<o>> \o
                 (IF n - 1 - i = 0 THEN r ELSE <<"(">> \o r \o <<")">>) :
                    o \in {"+", "-", "*", "/"},
                    l \in Expressions(i), r \in Expressions(n - 1 - i)} :
                i \in 0..(n - 1)}

ExpressionTexts == UNION {Expressions(n) : n \in 0..MaxOps}

\* the examples of the documentation
Examples ==
    { <<"2", " ", "+", " ", "3", " ", "*", " ", "4">>,
      <<"(", "2", " ", "+", " ", "3", ")", " ", "*", " ", "4">>,
      <<"1", "0", " ", "-", " ", "2", " ", "-", " ", "3">>,
      <<"7", " ", "/", " ", "2">>,
      <<"-", "7", " ", "/", " ", "2">>,
      <<"(", "0", " ", "-", " ", "7", ")", " ", "/", " ", "2">>,
      <<"(", "1", " ", "+", " ", "2">>,
      <<"1", " ", "+">>,
      <<"1", " ", "+", " ", "*", " ", "2">>,
      <<")">>,
      <<"*", " ", "3">>,
      <<"1", " ", "/", " ", "0">>,
      <<"5", " ", "+", " ", "4", " ", "/", " ", "(", "2", " ", "-", " ", "2", ")">>,
      <<"0", " ", "*", " ", "(", "1", " ", "/", " ", "0", ")">>,
      <<"1", " ", "@", " ", "2">>,
      <<" ", " ", "4", "+", "2", " ", "*", "3", "-", "6", "/", "2", " ">>,
      <<"4", "+", "2", "*", "3", "-", "6", "/", "2">>,
      <<"1", " ", "2">>,
      <<"1", " ", ")">>,
      <<"2", " ", "*", " ", "3", " ", "(", "4">>,
      <<"1", " ", "2", " ", "@">>,
      <<"\t", "1", "\t", "+", " ", "2">> }

Texts == AllTexts \cup PatternTexts \cup ExpressionTexts \cup Examples

(***************************************************************************)
(* The state machine.                                                      *)
(***************************************************************************)
\* the program state as a record
State ==
    [text |-> text, pos |-> pos, current_char |-> current_char,
     current_token |-> current_token, stack |-> stack, phase |-> phase,
     tree |-> tree, result |-> result, error |-> error]

Becomes(s) ==
    /\ text' = s.text
    /\ pos' = s.pos
    /\ current_char' = s.current_char
    /\ current_token' = s.current_token
    /\ stack' = s.stack
    /\ phase' = s.phase
    /\ tree' = s.tree
    /\ result' = s.result
    /\ error' = s.error

\* lexer = Lexer(text) in main()
InitialState(t) ==
    [text |-> t, pos |-> Lexer(t).pos, current_char |-> Lexer(t).current_char,
     current_token |-> Unassigned, stack |-> <<>>, phase |-> "init",
     tree |-> NoneNode, result |-> 0, error |-> ""]

Init ==
    \E t \in Texts :
        /\ text = InitialState(t).text
        /\ pos = InitialState(t).pos
        /\ current_char = InitialState(t).current_char
        /\ current_token = InitialState(t).current_token
        /\ stack = InitialState(t).stack
        /\ phase = InitialState(t).phase
        /\ tree = InitialState(t).tree
        /\ result = InitialState(t).result
        /\ error = InitialState(t).error

ParserInit == phase = "init" /\ Becomes(Parser(State))

InterpretParse == phase = "ready" /\ Becomes(interpret_parse(State))

ExprTerm == At(State, "expr", "start") /\ Becomes(expr_term(State))

TermFactor == At(State, "term", "start") /\ Becomes(term_factor(State))

FactorInteger ==
    /\ At(State, "factor", "start")
    /\ current_token.type = INTEGER
    /\ Becomes(factor_INTEGER(State))

FactorLParen ==
    /\ At(State, "factor", "start")
    /\ current_token.type = LPAREN
    /\ Becomes(factor_LPAREN(State))

FactorFallthrough ==
    /\ At(State, "factor", "start")
    /\ current_token.type \notin {INTEGER, LPAREN}
    /\ Becomes(factor_fallthrough(State))

FactorRParen == At(State, "factor", "rparen") /\ Becomes(factor_RPAREN(State))

TermWhile ==
    /\ At(State, "term", "loop")
    /\ current_token.type \in TermOps
    /\ Becomes(term_while(State))

TermReturn ==
    /\ At(State, "term", "loop")
    /\ current_token.type \notin TermOps
    /\ Becomes(term_return(State))

ExprWhile ==
    /\ At(State, "expr", "loop")
    /\ current_token.type \in ExprOps
    /\ Becomes(expr_while(State))

ExprReturn ==
    /\ At(State, "expr", "loop")
    /\ current_token.type \notin ExprOps
    /\ Becomes(expr_return(State))

InterpretVisit == phase = "parsed" /\ Becomes(interpret_visit(State))

Next ==
    \/ ParserInit
    \/ InterpretParse
    \/ ExprTerm
    \/ TermFactor
    \/ FactorInteger
    \/ FactorLParen
    \/ FactorFallthrough
    \/ FactorRParen
    \/ TermWhile
    \/ TermReturn
    \/ ExprWhile
    \/ ExprReturn
    \/ InterpretVisit

Spec == Init /\ [][Next]_vars

(***************************************************************************)
(* One evaluation as a function of the text: the body of the loop of       *)
(* main(), i.e. the steps above taken in program order until the           *)
(* interpreter returns or an exception leaves it.                          *)
(***************************************************************************)
Step(s) ==
    CASE s.phase = "init" -> Parser(s)
      [] s.phase = "ready" -> interpret_parse(s)
      [] s.phase = "parsed" -> interpret_visit(s)
      [] At(s, "expr", "start") -> expr_term(s)
      [] At(s, "term", "start") -> term_factor(s)
      [] At(s, "factor", "start") ->
           IF s.current_token.type = INTEGER THEN factor_INTEGER(s)
           ELSE IF s.current_token.type = LPAREN THEN factor_LPAREN(s)
           ELSE factor_fallthrough(s)
      [] At(s, "factor", "rparen") -> factor_RPAREN(s)
      [] At(s, "term", "loop") ->
           IF s.current_token.type \in TermOps THEN term_while(s) ELSE term_return(s)
      [] At(s, "expr", "loop") ->
           IF s.current_token.type \in ExprOps THEN expr_while(s) ELSE expr_return(s)

RECURSIVE Run(_)
Run(s) == IF s.phase = "done" THEN s ELSE Run(Step(s))

evaluate(t) == Run(InitialState(t))

(***************************************************************************)
(* PROPERTIES                                                              *)
(***************************************************************************)
Done == phase = "done"

\* what the caller of the evaluation observes
Outcome(s) == <<s.error, s.result>>

\* a tree without a missing child
RECURSIVE WellFormed(_)
WellFormed(t) ==
    \/ t.kind = "Num"
    \/ t.kind = "BinOp" /\ WellFormed(t.left) /\ WellFormed(t.right)

\* the text is an expression of the grammar and nothing else: the parser
\* returns a complete tree and has read the whole input
Valid(t) ==
    LET r == evaluate(t) IN WellFormed(r.tree) /\ r.current_token.type = EOF

\* the floor of a / b for b # 0, stated without the division of the model
Floor(a, b) ==
    LET m == IF a < 0 THEN -a ELSE a IN
    CHOOSE q \in (-m)..m :
        IF b > 0 THEN q * b <= a /\ a < (q + 1) * b
                 ELSE q * b >= a /\ a > (q + 1) * b

----
\* C1: multiplication and division bind tighter than addition and
\* subtraction and parentheses override that: 'a + b * c' evaluates to
\* a + (b * c) and '(a + b) * c' to (a + b) * c for all literals a, b, c;
\* '2 + 3 * 4' is 14 and '(2 + 3) * 4' is 20.
PrecedenceExpected ==
    UNION {{<<Pattern(a, "+", b, "*", c), a + (b * c)>>,
            <<ParenPattern(a, "+", b, "*", c), (a + b) * c>>} :
           a \in Lits, b \in Lits, c \in Lits}

PrecedenceTexts == {e[1] : e \in PrecedenceExpected}

C1_Precedence ==
    Done =>
      /\ text \in PrecedenceTexts =>
           error = "" /\ <<text, result>> \in PrecedenceExpected
      /\ text = <<"2", " ", "+", " ", "3", " ", "*", " ", "4">> => error = "" /\ result = 14
      /\ text = <<"(", "2", " ", "+", " ", "3", ")", " ", "*", " ", "4">> => error = "" /\ result = 20

C1_Witness ==
    Done /\ text = <<"2", " ", "+", " ", "3", " ", "*", " ", "4">> /\ result = 14 /\ error = ""

----
\* C2: operators of one precedence level are left-associative:
\* 'a - b - c' evaluates to (a - b) - c and 'a / b / c' with b, c non-zero
\* to the floor of (the floor of a / b) / c; '10 - 2 - 3' is 5.
AssociativityExpected ==
    UNION {{<<Pattern(a, "-", b, "-", c), (a - b) - c>>} \cup
           (IF b # 0 /\ c # 0
            THEN {<<Pattern(a, "/", b, "/", c), Floor(Floor(a, b), c)>>}
            ELSE {}) :
           a \in Lits, b \in Lits, c \in Lits}

AssociativityTexts == {e[1] : e \in AssociativityExpected}

C2_LeftAssociative ==
    Done =>
      /\ text \in AssociativityTexts =>
           error = "" /\ <<text, result>> \in AssociativityExpected
      /\ text = <<"1", "0", " ", "-", " ", "2", " ", "-", " ", "3">> => error = "" /\ result = 5

C2_Witness ==
    Done /\ text = <<"1", "0", " ", "-", " ", "2", " ", "-", " ", "3">> /\ result = 5 /\ error = ""

----
\* C3 as stated: division is floor division, '7 / 2' returns 3 and
\* '-7 / 2' returns -4.
C3_Original ==
    Done =>
      /\ text = <<"7", " ", "/", " ", "2">> => error = "" /\ result = 3
      /\ text = <<"-", "7", " ", "/", " ", "2">> => error = "" /\ result = -4

\* C3 amended: division is floor division, rounding toward negative
\* infinity: '7 / 2' returns 3 and '(0 - a) / b' returns the floor of
\* -a / b for all literals a and b # 0, so '(0 - 7) / 2' returns -4 and not
\* -3; the grammar has no unary minus and '-7 / 2' returns no integer.
FloorExpected ==
    {<<ParenPattern(0, "-", a, "/", b), Floor(0 - a, b)>> :
        a \in Lits, b \in Lits \ {0}}

FloorTexts == {e[1] : e \in FloorExpected}

C3_FloorDivision ==
    Done =>
      /\ text = <<"7", " ", "/", " ", "2">> => error = "" /\ result = 3
      /\ text = <<"(", "0", " ", "-", " ", "7", ")", " ", "/", " ", "2">> => error = "" /\ result = -4
      /\ text \in FloorTexts => error = "" /\ <<text, result>> \in FloorExpected
      /\ text = <<"-", "7", " ", "/", " ", "2">> => error # ""

C3_Witness ==
    Done /\ text = <<"(", "0", " ", "-", " ", "7", ")", " ", "/", " ", "2">> /\ result = -4 /\ error = ""

----
\* C4: whenever the token stream does not match the grammar at the current
\* position the evaluation fails with the parser's 'Invalid syntax': a
\* factor whose lookahead is neither INTEGER nor LPAREN, a missing closing
\* parenthesis, the inputs '(1 + 2', '1 +', '1 + * 2', ')' and '* 3'.
C4_ParseError ==
    /\ (At(State, "factor", "start") /\ current_token.type \notin {INTEGER, LPAREN})
         => Raised(Step(State)) /\ Step(State).error = "Invalid syntax"
    /\ (At(State, "factor", "rparen") /\ current_token.type # RPAREN)
         => Raised(Step(State)) /\ Step(State).error = "Invalid syntax"
    /\ (Done /\ text \in {<<"(", "1", " ", "+", " ", "2">>, <<"1", " ", "+">>, <<"1", " ", "+", " ", "*", " ", "2">>, <<")">>, <<"*", " ", "3">>})
         => error = "Invalid syntax"

----
\* C5: a syntactically valid expression that contains a division whose
\* right operand evaluates to zero, at any depth, fails with the
\* division-by-zero error and returns no integer.
RECURSIVE Denotes(_)
Denotes(t) ==
    IF t.kind = "Num" THEN t.value
    ELSE LET l == Denotes(t.left)
             r == Denotes(t.right)
         IN CASE t.op.type = PLUS  -> l + r
              [] t.op.type = MINUS -> l - r
              [] t.op.type = MUL   -> l * r
              [] t.op.type = DIV   -> Floor(l, r)

RECURSIVE DividesByZero(_)
DividesByZero(t) ==
    /\ t.kind = "BinOp"
    /\ \/ DividesByZero(t.left)
       \/ DividesByZero(t.right)
       \/ t.op.type = DIV /\ Denotes(t.right) = 0

C5_DivisionByZero ==
    (Done /\ WellFormed(tree) /\ DividesByZero(tree))
       => error = "ZeroDivisionError" /\ result = 0

C5_Witness ==
    Done /\ text = <<"0", " ", "*", " ", "(", "1", " ", "/", " ", "0", ")">> /\ error = "ZeroDivisionError"

----
\* C6: when get_next_token is called and the first non-whitespace character
\* at or after the cursor is neither a digit nor one of + - * / ( ), the
\* call fails with 'Invalid character' and that is the error the caller of
\* the evaluation gets; '1 @ 2' fails with it.

\* the step about to be taken calls get_next_token
CallsLexer ==
    \/ phase = "init"
    \/ At(State, "factor", "start") /\ current_token.type \in {INTEGER, LPAREN}
    \/ At(State, "factor", "rparen") /\ current_token.type = RPAREN
    \/ At(State, "term", "loop") /\ current_token.type \in {MUL, DIV}
    \/ At(State, "expr", "loop") /\ current_token.type \in {PLUS, MINUS}

InvalidCharAhead ==
    \E i \in (pos + 1)..Len(text) :
        /\ ~ isspace(text[i])
        /\ ~ isdigit(text[i])
        /\ text[i] \notin {"+", "-", "*", "/", "(", ")"}
        /\ \A j \in (pos + 1)..(i - 1) : isspace(text[j])

C6_LexerError ==
    /\ (CallsLexer /\ InvalidCharAhead)
         => Raised(Step(State)) /\ Step(State).error = "Invalid character"
    /\ (Done /\ text = <<"1", " ", "@", " ", "2">>) => error = "Invalid character"

C6_Witness ==
    Done /\ text = <<"1", " ", "@", " ", "2">> /\ error = "Invalid character"

----
\* C7: inserting whitespace before the first token, after the last token
\* or between two adjacent tokens of a syntactically valid expression, never
\* inside an integer literal, does not change the outcome; '  4+2 *3-6/2 '
\* evaluates to the same value as '4+2*3-6/2'.
Blank(c) == c \in {" ", "\t"}

Squeeze(t) == SelectSeq(t, LAMBDA c : ~ Blank(c))

\* blanks stand between two digits: they separate two literals
SplitsLiteral(t) ==
    \E i \in 1..Len(t), j \in 1..Len(t) :
        /\ i + 1 < j
        /\ isdigit(t[i])
        /\ isdigit(t[j])
        /\ \A k \in (i + 1)..(j - 1) : Blank(t[k])

C7_Whitespace ==
    (/\ Done
     /\ \E i \in 1..Len(text) : Blank(text[i])
     /\ Squeeze(text) # <<>>
     /\ ~ SplitsLiteral(text)
     /\ Valid(Squeeze(text)))
       => Outcome(State) = Outcome(evaluate(Squeeze(text)))

C7_Witness ==
    /\ Done
    /\ text = <<" ", " ", "4", "+", "2", " ", "*", "3", "-", "6", "/", "2", " ">>
    /\ error = ""
    /\ result = evaluate(<<"4", "+", "2", "*", "3", "-", "6", "/", "2">>).result
    /\ result = 7

----
\* C8: every evaluation terminates: pos never decreases, a get_next_token
\* call that returns a token other than EOF advances pos, and every loop
\* iteration and every call of expr / term / factor consumes at least one
\* token.

\* the step from s to n has eaten a token
Consumed(s, n) ==
    \/ n.pos > s.pos
    \/ s.current_token.type # EOF /\ n.current_token.type = EOF

C8_PosMonotone == Step(State).pos >= pos

C8_TokenAdvances ==
    (CallsLexer /\ ~ Raised(Step(State)) /\ Step(State).current_token.type # EOF)
       => Step(State).pos > pos

C8_LoopConsumes ==
    (\/ At(State, "term", "loop") /\ current_token.type \in {MUL, DIV}
     \/ At(State, "expr", "loop") /\ current_token.type \in {PLUS, MINUS})
       => Raised(Step(State)) \/ Consumed(State, Step(State))

\* a call of factor that has returned or gone on to the inner expr has
\* eaten a token
C8_CallConsumes ==
    At(State, "factor", "start")
       => Raised(Step(State)) \/ Consumed(State, Step(State))

C8_Progress ==
    ~ Done => C8_PosMonotone /\ C8_TokenAdvances /\ C8_LoopConsumes /\ C8_CallConsumes

----
\* C9: every tree returned by Parser.parse is a Num or a BinOp whose
\* children are, recursively, Nums or BinOps: no child is None.
C9_TreeWellFormed == phase = "parsed" => WellFormed(tree)

----
\* C10: Parser.parse never checks that the lookahead is EOF: a complete
\* expression followed by a token that is not a continuing operator (an
\* integer, '(' or ')') and by anything else evaluates like the leading
\* expression alone, with no error of its own, and nothing beyond that one
\* lookahead token is tokenized; '1 2 @' returns 1.

\* the first token of rest when it follows e is an integer or a parenthesis
FirstTokenAt(e, rest) ==
    IF \A i \in 1..Len(rest) : Blank(rest[i]) THEN 0
    ELSE LET i == CHOOSE i \in 1..Len(rest) :
                      ~ Blank(rest[i]) /\ \A j \in 1..(i - 1) : Blank(rest[j])
         IN IF rest[i] \in {"(", ")"} THEN i
            ELSE IF isdigit(rest[i]) /\ (i > 1 \/ ~ isdigit(e[Len(e)])) THEN i
            ELSE 0

\* the end of the token that starts at i in rest
TokenEnd(rest, i) ==
    IF rest[i] \in {"(", ")"} THEN i
    ELSE CHOOSE k \in i..Len(rest) :
             /\ \A j \in i..k : isdigit(rest[j])
             /\ k = Len(rest) \/ ~ isdigit(rest[k + 1])

C10_TrailingIgnored ==
    Done =>
      /\ \A k \in 1..(Len(text) - 1) :
            LET e == SubSeq(text, 1, k)
                rest == SubSeq(text, k + 1, Len(text))
                i == FirstTokenAt(e, rest)
            IN (i > 0 /\ Valid(e)) =>
                  /\ Outcome(State) = Outcome(evaluate(e))
                  /\ pos = k + TokenEnd(rest, i)
      /\ text = <<"1", " ", "2", " ", "@">> => error = "" /\ result = 1

C10_Witness ==
    /\ Done
    /\ text = <<"1", " ", "2", " ", "@">>
    /\ error = ""
    /\ result = 1
    /\ pos = 3

====
